---- MODULE Spec2Model ----
(***************************************************************************)
(* Model of script.py, in four parts over one state:                       *)
(*   Spec      the batch orchestrator (main) with its per-sheet progress   *)
(*             files, over crashes and restarts of the script; login's     *)
(*             navigation and process_siren appear by their outcomes;      *)
(*   SpecNav   navigate_to_delegation_page on a session whose contexts     *)
(*             open, close and show pages as the site decides;             *)
(*   SpecPipe  process_siren and process_delegation for one entity;        *)
(*   SpecExcel read_excel's loop over the SIREN column of one sheet.       *)
(***************************************************************************)
EXTENDS Integers, Sequences, FiniteSets, TLC

\* ---------------------------------------------------------------- bounds
\* Largest number of SIRENs read from one sheet.
MaxItems == 3

\* --------------------------------------------------------- configuration
SHEETS_TO_PROCESS ==
  << <<"T","V","A"," ","3">>,
     <<"T","V","A"," ","4">>,
     <<"T","V","A"," ","5"," ">>,
     <<"T","V","A"," ","6"," ">>,
     <<"T","V","A"," ","7">>,
     <<"T","V","A"," ","8">> >>

\* ------------------------------------------------------------- utilities
RECURSIVE lstrip(_)
lstrip(s) == IF s # <<>> /\ Head(s) = " " THEN lstrip(Tail(s)) ELSE s

RECURSIVE rstrip(_)
rstrip(s) ==
  IF s # <<>> /\ s[Len(s)] = " " THEN rstrip(SubSeq(s, 1, Len(s) - 1)) ELSE s

strip(s) == rstrip(lstrip(s))

replace(s, old, new) == [k \in 1..Len(s) |-> IF s[k] = old THEN new ELSE s[k]]

\* One progress file for all the sheets.
progress_file_for_shared(sheet_name) == << "a", "l", "l" >>

\* progress_file_for: the name of the progress file of a sheet
\* (the directory and the "progress_" / ".json" affixes are the same for all).
progress_file_for(sheet_name) == replace(strip(sheet_name), " ", "_")

\* Content of a progress file: absent, a complete JSON record, or the
\* truncated / partly written file that open(pf, "w") leaves before
\* json.dump has finished.
Absent == [st |-> "absent", siren_index |-> 0]
Torn == [st |-> "torn", siren_index |-> 0]
Json(n) == [st |-> "json", siren_index |-> n]

\* The sheets found in the workbook (keys of data): read_excel skips the sheets
\* of SHEETS_TO_PROCESS that the workbook lacks. The workbook of the model
\* holds "TVA 4" and "TVA 5 ".
Sheets == {SHEETS_TO_PROCESS[2], SHEETS_TO_PROCESS[3]}
ProgressFiles == {progress_file_for(s) : s \in Sheets}

NoItem == [sheet |-> <<>>, idx |-> -1]
Item(s, k) == [sheet |-> s, idx |-> k]

VARIABLES
  file,            \* progress file name -> content (the disk; survives restarts)
  data,            \* sheet -> number of SIRENs read by read_excel
  pc,              \* position of the current run in main
  selected_sheets, \* result of select_sheets
  g,               \* position of sheet_name in selected_sheets (past the end: all done)
  start_index,     \* main: start_index
  i,               \* main: the loop index (at "for": the next value of the range)
  alive,           \* the browser session still answers
  \* history (observation only)
  declined,        \* the operator declined the resume of the current sheet
  resumed,         \* the operator accepted the resume of the current sheet
  calls,           \* process_siren invocations in the current iteration
  anyCall,         \* process_siren was invoked for the current sheet in this run
  handled,         \* indices of the current sheet whose iteration has ended
  crashAt,         \* item the loop was at when the previous run crashed
  lastSkip,        \* the latest skipped item; old: skipped in an earlier run
  quitAt,          \* the item at whose prompt the operator quit (this run)
  deadAt,          \* the item during which the session died (this run)
  written          \* the index last written for the current sheet in this run

batchVars == << file, data, pc, selected_sheets, g, start_index, i, alive,
                declined, resumed, calls, anyCall, handled, crashAt, lastSkip,
                quitAt, deadAt, written >>

\* The browser session during navigate_to_delegation_page.
VARIABLES
  max_retries,     \* navigate_to_delegation_page: max_retries
  navpc,           \* position in navigate_to_delegation_page
  attempt,         \* number of attempts started (attempt + 1 of the code)
  handles,         \* driver.window_handles: the open contexts, oldest first
  page,            \* open context -> what it shows
  focus,           \* the context the driver is switched to (0: it was closed)
  nextId,          \* next fresh window handle (handles of the contexts that
                   \* NavCollapse closes are never referred to again and are reused)
  new_handles,     \* line 183: contexts opened by the click on service management
  popup_handles,   \* line 201: contexts opened by the delegation popup script
                   \* (both emptied when an attempt starts: the values of the
                   \* attempt before are not read again)
  nav_result,      \* "none", "success" (return True) or "exhausted" (raise)
  \* history (observation only)
  opened,          \* contexts opened since the current attempt started
  failures,        \* attempts that failed
  causes           \* how the failed attempts failed

navVars == << max_retries, navpc, attempt, handles, page, focus, nextId,
              new_handles, popup_handles, nav_result, opened, failures,
              causes >>

\* The browser session during process_siren.
VARIABLES
  ppc,             \* position in process_siren / process_delegation
  screen,          \* what the focused context shows
  offered,         \* services whose 'Deleguer ou modifier' link is rendered
  available,       \* process_siren: available (indices into SERVICES)
  svc_i,           \* process_siren: i + 1, the position of service in available
  boxes,           \* the checkboxes of the form shown: selected or not
  vanished,        \* links that disappeared since the detection
  result,          \* "none", "returned" or "raised"
  log              \* history: what process_siren did on the session, in order

pipeVars == << ppc, screen, offered, available, svc_i, boxes, vanished, result,
              log >>

\* read_excel on the SIREN column (column D from row 4) of one sheet.
VARIABLES
  rows,            \* the values of the cells of the column, top down
  row,             \* position of the for loop over the rows
  sirens,          \* read_excel: sirens
  xpc,             \* "rows" (in the loop), "done", "raised", "idle"
  ignored          \* history: the rows reported as invalid and skipped

excelVars == << rows, row, sirens, xpc, ignored >>

vars == << batchVars, navVars, pipeVars, excelVars >>

\* A step of one part of the model leaves the other parts alone.
BatchStep == UNCHANGED << navVars, pipeVars, excelVars >>
NavStep == UNCHANGED << batchVars, pipeVars, excelVars >>
PipeStep == UNCHANGED << batchVars, navVars, excelVars >>
ExcelStep == UNCHANGED << batchVars, navVars, pipeVars >>

sheet_name == selected_sheets[g]
pf == progress_file_for(sheet_name)
sirens_len == data[sheet_name]

\* Non-empty sequences of distinct sheets (the operator's choice in select_sheets).
RECURSIVE Selections(_)
Selections(n) ==
  IF n = 0 THEN {<<>>}
  ELSE LET prev == Selections(n - 1)
       IN prev \cup {Append(q, s) : q \in {p \in prev : Len(p) = n - 1},
                                    s \in Sheets}

Distinct(q) == \A a, b \in 1..Len(q) : a # b => q[a] # q[b]
SheetChoices == {q \in Selections(Cardinality(Sheets)) : Distinct(q)}

\* ------------------------------------------------------- the checkpoint store
load_progress(f, name) ==
  IF f[progress_file_for(name)].st = "absent" THEN 0
  ELSE f[progress_file_for(name)].siren_index

load_fails(f, name) == f[progress_file_for(name)].st = "torn"

\* clear_progress leaving the file in place.
clear_progress_keeps(f, name) == f

clear_progress(f, name) == [f EXCEPT ![progress_file_for(name)] = Absent]

\* save_progress, first half: open(pf, "w") truncates the file.
save_open(f, name) == [f EXCEPT ![progress_file_for(name)] = Torn]
\* save_progress storing the index after the current one.
save_dump_next(f, name, idx) ==
  [f EXCEPT ![progress_file_for(name)] = Json(idx + 1)]

\* save_progress, second half: json.dump and close.
save_dump(f, name, idx) == [f EXCEPT ![progress_file_for(name)] = Json(idx)]

\* No save_progress yet for the current sheet in this run.
NotWritten == 0 - 1

ResetGroupHistory ==
  /\ declined' = FALSE
  /\ resumed' = FALSE
  /\ calls' = 0
  /\ anyCall' = FALSE
  /\ handled' = {}
  /\ written' = NotWritten

\* The session model at rest (main is modelled with login's navigation and
\* process_siren reduced to their outcomes).
NavIdle ==
  /\ max_retries = 0
  /\ navpc = "idle"
  /\ attempt = 0
  /\ handles = <<1>>
  /\ page = [h \in {1} |-> "home"]
  /\ focus = 1
  /\ nextId = 2
  /\ new_handles = {}
  /\ popup_handles = {}
  /\ nav_result = "none"
  /\ opened = {}
  /\ failures = 0
  /\ causes = {}

PipeIdle ==
  /\ ppc = "idle"
  /\ screen = "siren_entry"
  /\ offered = {}
  /\ available = <<>>
  /\ svc_i = 0
  /\ boxes = <<>>
  /\ vanished = 0
  /\ result = "none"
  /\ log = <<>>

BatchInit(lens) ==
  /\ file = [f \in ProgressFiles |-> Absent]
  /\ data \in lens
  /\ pc = "start"
  /\ selected_sheets = <<>>
  /\ g = 1
  /\ start_index = 0
  /\ i = 0
  /\ alive = TRUE
  /\ declined = FALSE
  /\ resumed = FALSE
  /\ calls = 0
  /\ anyCall = FALSE
  /\ handled = {}
  /\ crashAt = NoItem
  /\ lastSkip = [old |-> FALSE, item |-> NoItem]
  /\ quitAt = NoItem
  /\ deadAt = NoItem
  /\ written = NotWritten

\* read_excel at rest.
ExcelIdle ==
  /\ rows = <<>>
  /\ row = 0
  /\ sirens = <<>>
  /\ xpc = "idle"
  /\ ignored = {}

Init ==
  BatchInit([Sheets -> 0..MaxItems]) /\ NavIdle /\ PipeIdle /\ ExcelIdle

\* main, lines 454-465: read_excel, select_sheets (which loads the progress
\* of every sheet for the menu, outside the try block), init_driver.
SelectSheets ==
  /\ BatchStep
  /\ pc = "start"
  /\ IF \E s \in Sheets : load_fails(file, s)
     THEN /\ pc' = "exited"
          /\ UNCHANGED selected_sheets
     ELSE \E choice \in SheetChoices :
            /\ selected_sheets' = choice
            /\ pc' = IF choice = <<>> THEN "exited" ELSE "login"
  /\ UNCHANGED << file, data, written, g, start_index, i, alive, declined, resumed,
                  calls, anyCall, handled, crashAt, lastSkip, quitAt, deadAt >>

\* main, line 469: login; navigate_to_delegation_page returns or raises
\* (the raise is caught at line 529).
Login ==
  /\ BatchStep
  /\ pc = "login"
  /\ \E ok \in BOOLEAN : pc' = IF ok THEN "load" ELSE "exited"
  /\ g' = 1
  /\ UNCHANGED << file, data, written, selected_sheets, start_index, i, alive,
                  declined, resumed, calls, anyCall, handled, crashAt, lastSkip,
                  quitAt, deadAt >>

\* main, lines 472-481: next sheet, load_progress, start_index.
LoadProgress ==
  /\ BatchStep
  /\ pc = "load"
  /\ IF load_fails(file, sheet_name)
     THEN /\ pc' = "exited"
          /\ UNCHANGED << start_index, i >>
     ELSE /\ start_index' = load_progress(file, sheet_name)
          /\ i' = start_index'
          /\ pc' = IF start_index' > 0 THEN "resume" ELSE "for"
  /\ ResetGroupHistory
  /\ UNCHANGED << file, data, selected_sheets, g, alive, crashAt, lastSkip,
                  quitAt, deadAt >>

\* ResumePrompt keeping the loaded index when the operator declines.
ResumePrompt_decline_keeps_index ==
  /\ BatchStep
  /\ pc = "resume"
  /\ \E confirm \in {"o", "n"} :
       IF confirm # "o"
       THEN /\ file' = clear_progress(file, sheet_name)
            /\ UNCHANGED start_index
            /\ declined' = TRUE
            /\ resumed' = FALSE
       ELSE /\ UNCHANGED << file, start_index >>
            /\ declined' = FALSE
            /\ resumed' = TRUE
  /\ i' = start_index'
  /\ pc' = "for"
  /\ UNCHANGED << data, written, selected_sheets, g, alive, calls, anyCall, handled,
                  crashAt, lastSkip, quitAt, deadAt >>

\* main, lines 482-486: the resume prompt.
ResumePrompt ==
  /\ BatchStep
  /\ pc = "resume"
  /\ \E confirm \in {"o", "n"} :
       IF confirm # "o"
       THEN /\ file' = clear_progress(file, sheet_name)
            /\ start_index' = 0
            /\ declined' = TRUE
            /\ resumed' = FALSE
       ELSE /\ UNCHANGED << file, start_index >>
            /\ declined' = FALSE
            /\ resumed' = TRUE
  /\ i' = start_index'
  /\ pc' = "for"
  /\ UNCHANGED << data, written, selected_sheets, g, alive, calls, anyCall, handled,
                  crashAt, lastSkip, quitAt, deadAt >>

\* main, lines 493-494: one step of for i in range(start_index, len(sirens)).
ForStep ==
  /\ BatchStep
  /\ pc = "for"
  /\ pc' = IF i < sirens_len THEN "save" ELSE "clear"
  /\ calls' = 0
  /\ UNCHANGED << file, data, written, selected_sheets, g, start_index, i, alive,
                  declined, resumed, anyCall, handled, crashAt, lastSkip, quitAt,
                  deadAt >>

\* main, line 495 (and save_progress line 60): open the progress file for writing.
SaveOpen ==
  /\ BatchStep
  /\ pc \in {"save", "save_err"}
  /\ file' = save_open(file, sheet_name)
  /\ pc' = IF pc = "save" THEN "dump" ELSE "dump_err"
  /\ UNCHANGED << data, written, selected_sheets, g, start_index, i, alive, declined,
                  resumed, calls, anyCall, handled, crashAt, lastSkip, quitAt,
                  deadAt >>

\* SaveDump recording the previous index after a failure.
SaveDump_err_prev ==
  /\ BatchStep
  /\ pc \in {"dump", "dump_err"}
  /\ file' = save_dump(file, sheet_name, IF pc = "dump" THEN i ELSE i - 1)
  /\ written' = IF pc = "dump" THEN i ELSE i - 1
  /\ pc' = IF pc = "dump" THEN "process" ELSE "prompt"
  /\ UNCHANGED << data, selected_sheets, g, start_index, i, alive, declined,
                  resumed, calls, anyCall, handled, crashAt, lastSkip, quitAt,
                  deadAt >>

\* save_progress line 61: write the record; back in main after lines 495 / 501.
SaveDump ==
  /\ BatchStep
  /\ pc \in {"dump", "dump_err"}
  /\ file' = save_dump(file, sheet_name, i)
  /\ written' = i
  /\ pc' = IF pc = "dump" THEN "process" ELSE "prompt"
  /\ UNCHANGED << data, selected_sheets, g, start_index, i, alive, declined,
                  resumed, calls, anyCall, handled, crashAt, lastSkip, quitAt,
                  deadAt >>

\* End of an iteration of the for loop (fall through to line 517, or continue).
EndIteration ==
  /\ i' = i + 1
  /\ handled' = handled \cup {i}
  /\ pc' = "for"

Skip ==
  /\ EndIteration
  /\ lastSkip' = [old |-> FALSE, item |-> Item(sheet_name, i)]

\* main, lines 497-499 and 507-512: process_siren for item i returns or raises;
\* the session may die during it, and a dead session fails every call.
ProcessSiren ==
  /\ BatchStep
  /\ pc \in {"process", "retry"}
  /\ calls' = calls + 1
  /\ anyCall' = TRUE
  /\ \E dies \in BOOLEAN, raises \in BOOLEAN :
       /\ (~alive \/ dies) => raises
       /\ alive' = (alive /\ ~dies)
       /\ deadAt' = IF alive /\ dies THEN Item(sheet_name, i) ELSE deadAt
       /\ IF ~raises
          THEN EndIteration /\ UNCHANGED lastSkip
          ELSE IF pc = "process"
               THEN /\ pc' = "save_err"
                    /\ UNCHANGED << i, handled, lastSkip >>
               ELSE Skip
  /\ UNCHANGED << file, data, written, selected_sheets, g, start_index, declined,
                  resumed, crashAt, quitAt >>

\* The retry prompt with the answer o starting the iteration's work over.
RetryPrompt_again ==
  /\ BatchStep
  /\ pc = "prompt"
  /\ \E retry \in {"o", "n", "q"} :
       IF retry = "q"
       THEN /\ pc' = "exited"
            /\ quitAt' = Item(sheet_name, i)
            /\ UNCHANGED << i, handled, lastSkip >>
       ELSE IF retry = "o"
            THEN /\ pc' = "process"
                 /\ UNCHANGED << i, handled, lastSkip, quitAt >>
            ELSE Skip /\ UNCHANGED quitAt
  /\ UNCHANGED << file, data, written, selected_sheets, g, start_index, alive,
                  declined, resumed, calls, anyCall, crashAt, deadAt >>

\* The retry prompt with the answer q going on to the next item.
RetryPrompt_quit_continues ==
  /\ BatchStep
  /\ pc = "prompt"
  /\ \E retry \in {"o", "n", "q"} :
       IF retry = "q"
       THEN /\ Skip
            /\ quitAt' = Item(sheet_name, i)
       ELSE IF retry = "o"
            THEN /\ pc' = "retry"
                 /\ UNCHANGED << i, handled, lastSkip, quitAt >>
            ELSE Skip /\ UNCHANGED quitAt
  /\ UNCHANGED << file, data, written, selected_sheets, g, start_index, alive,
                  declined, resumed, calls, anyCall, crashAt, deadAt >>

\* main, lines 502-515: the retry prompt.
RetryPrompt ==
  /\ BatchStep
  /\ pc = "prompt"
  /\ \E retry \in {"o", "n", "q"} :
       IF retry = "q"
       THEN /\ pc' = "exited"
            /\ quitAt' = Item(sheet_name, i)
            /\ UNCHANGED << i, handled, lastSkip >>
       ELSE IF retry = "o"
            THEN /\ pc' = "retry"
                 /\ UNCHANGED << i, handled, lastSkip, quitAt >>
            ELSE Skip /\ UNCHANGED quitAt
  /\ UNCHANGED << file, data, written, selected_sheets, g, start_index, alive,
                  declined, resumed, calls, anyCall, crashAt, deadAt >>

\* main, lines 520-521: the sheet is exhausted.
ClearProgress ==
  /\ BatchStep
  /\ pc = "clear"
  /\ file' = clear_progress(file, sheet_name)
  /\ g' = g + 1
  /\ pc' = IF g < Len(selected_sheets) THEN "load" ELSE "exited"
  /\ UNCHANGED << data, written, selected_sheets, start_index, i, alive, declined,
                  resumed, calls, anyCall, handled, crashAt, lastSkip, quitAt,
                  deadAt >>

InLoopBody == pc \in {"save", "dump", "process", "save_err", "dump_err", "prompt", "retry"}

\* The process dies (kill, power loss, KeyboardInterrupt) wherever main is.
Crash ==
  /\ BatchStep
  /\ pc \in {"login", "load", "resume", "for", "clear"} \/ InLoopBody
  /\ pc' = "crashed"
  /\ crashAt' = IF InLoopBody THEN Item(sheet_name, i) ELSE NoItem
  /\ UNCHANGED << file, data, written, selected_sheets, g, start_index, i, alive,
                  declined, resumed, calls, anyCall, handled, lastSkip, quitAt,
                  deadAt >>

\* The script is started again: only the progress files survive.
Restart ==
  /\ BatchStep
  /\ pc \in {"exited", "crashed"}
  /\ pc' = "start"
  /\ selected_sheets' = <<>>
  /\ g' = 1
  /\ start_index' = 0
  /\ i' = 0
  /\ alive' = TRUE
  /\ ResetGroupHistory
  /\ crashAt' = IF pc = "crashed" THEN crashAt ELSE NoItem
  /\ quitAt' = NoItem
  /\ deadAt' = NoItem
  /\ lastSkip' = [lastSkip EXCEPT !.old = (lastSkip.item # NoItem)]
  /\ UNCHANGED << file, data >>

Next ==
  \/ SelectSheets
  \/ Login
  \/ LoadProgress
  \/ ResumePrompt
  \/ ForStep
  \/ SaveOpen
  \/ SaveDump
  \/ ProcessSiren
  \/ RetryPrompt
  \/ ClearProgress
  \/ Crash
  \/ Restart

Spec == Init /\ [][Next]_vars

\* ------------------------------------------- navigate_to_delegation_page
\* Largest max_retries tried (the default, line 143, is 3).
MaxBudget == 3
\* Contexts that may open besides the expected one when a context is opened,
\* and contexts open besides the first when the navigation starts.
MaxExtra == 1

\* What a context shows.
Kinds == {"home", "services", "deleg", "error", "deleg_err", "blank"}
\* //a[contains(text(),'Fermer')] is found
fermer(k) == k \in {"error", "deleg_err"}
\* #saisieSiren is present
saisieSiren(k) == k \in {"deleg", "deleg_err"}
\* "accueil" in driver.current_url
accueil(k) == k = "home"
\* the link 'Gerer les services' is clickable
gerer(k) == k = "home"

\* Where driver.get(accueil.do) and the click on 'Fermer' may land.
Landings == {"home", "error", "blank"}
\* What the service-management tab and the delegation popup may show.
TabKinds == {"services", "error", "blank"}
PopupKinds == {"deleg", "error", "deleg_err", "blank"}
\* What a context nobody asked for may show.
RogueKinds == {"blank", "deleg"}

Range(q) == {q[k] : k \in 1..Len(q)}
Open == Range(handles)

Rogues == UNION {[1..e -> RogueKinds] : e \in 0..MaxExtra}

NavInit ==
  /\ max_retries \in 0..MaxBudget
  /\ navpc = "loop"
  /\ attempt = 0
  /\ \E n \in 1..(1 + MaxExtra) :
       /\ handles = [k \in 1..n |-> k]
       /\ page \in [1..n -> Kinds]
       /\ focus \in 0..n
       /\ nextId = n + 1
  /\ new_handles = {}
  /\ popup_handles = {}
  /\ nav_result = "none"
  /\ opened = {}
  /\ failures = 0
  /\ causes = {}

\* except Exception (lines 220-222), or continue (line 211): the attempt failed.
Fail(cause) ==
  /\ failures' = failures + 1
  /\ causes' = causes \cup {cause}
  /\ navpc' = "loop"

\* The contexts of kinds (a sequence) open: they get fresh handles.
OpenContexts(kinds) ==
  /\ handles' = handles \o [k \in 1..Len(kinds) |-> nextId + k - 1]
  /\ page' = [h \in Open \cup {nextId + k - 1 : k \in 1..Len(kinds)} |->
                IF h \in Open THEN page[h] ELSE kinds[h - nextId + 1]]
  /\ nextId' = nextId + Len(kinds)
  /\ opened' = opened \cup {nextId + k - 1 : k \in 1..Len(kinds)}

Expected(kind) == IF kind = "none" THEN <<>> ELSE <<kind>>

\* The attempt loop running once more than max_retries.
NavLoop_one_more ==
  /\ NavStep
  /\ navpc = "loop"
  /\ IF attempt <= max_retries
     THEN /\ attempt' = attempt + 1
          /\ opened' = {}
          /\ new_handles' = {}
          /\ popup_handles' = {}
          /\ IF focus \in Open
             THEN /\ navpc' = "dismiss"
                  /\ UNCHANGED << failures, causes >>
             ELSE Fail("exception")
          /\ UNCHANGED nav_result
     ELSE /\ nav_result' = "exhausted"
          /\ navpc' = "done"
          /\ UNCHANGED << attempt, opened, new_handles, popup_handles,
                          failures, causes >>
  /\ UNCHANGED << max_retries, handles, page, focus, nextId >>

\* Lines 148-151 and 224: the next attempt, or the raise when the budget is
\* used up; driver.current_url raises when the focused context is closed.
NavLoop ==
  /\ NavStep
  /\ navpc = "loop"
  /\ IF attempt < max_retries
     THEN /\ attempt' = attempt + 1
          /\ opened' = {}
          /\ new_handles' = {}
          /\ popup_handles' = {}
          /\ IF focus \in Open
             THEN /\ navpc' = "dismiss"
                  /\ UNCHANGED << failures, causes >>
             ELSE Fail("exception")
          /\ UNCHANGED nav_result
     ELSE /\ nav_result' = "exhausted"
          /\ navpc' = "done"
          /\ UNCHANGED << attempt, opened, new_handles, popup_handles,
                          failures, causes >>
  /\ UNCHANGED << max_retries, handles, page, focus, nextId >>

\* Lines 153-160: click 'Fermer' if it is there; the click closes the context
\* or loads another page in it. Nothing raised here leaves the inner try.
NavDismissError ==
  /\ NavStep
  /\ navpc = "dismiss"
  /\ IF fermer(page[focus])
     THEN \E closes \in BOOLEAN :
            IF closes
            THEN /\ handles' = SelectSeq(handles, LAMBDA h : h # focus)
                 /\ page' = [h \in Open \ {focus} |-> page[h]]
            ELSE /\ \E k \in Landings : page' = [page EXCEPT ![focus] = k]
                 /\ UNCHANGED handles
     ELSE UNCHANGED << handles, page >>
  /\ navpc' = "collapse"
  /\ UNCHANGED << max_retries, attempt, focus, nextId, new_handles,
                  popup_handles, nav_result, opened, failures, causes >>

\* NavCollapse switching to the first context without closing the others.
NavCollapse_no_close ==
  /\ NavStep
  /\ navpc = "collapse"
  /\ IF handles = <<>>
     THEN /\ Fail("exception")
          /\ UNCHANGED << handles, page, focus >>
     ELSE /\ focus' = handles[1]
          /\ navpc' = "home"
          /\ UNCHANGED << handles, page, failures, causes >>
  /\ UNCHANGED << max_retries, attempt, nextId, new_handles, popup_handles,
                  nav_result, opened >>

\* Lines 162-168: close every context but the first and switch to the first;
\* window_handles[0] raises IndexError when no context is left.
NavCollapse ==
  /\ NavStep
  /\ navpc = "collapse"
  /\ IF handles = <<>>
     THEN /\ Fail("exception")
          /\ UNCHANGED << handles, page, focus >>
     ELSE /\ handles' = <<handles[1]>>
          /\ page' = [h \in {handles[1]} |-> page[h]]
          /\ focus' = handles[1]
          /\ navpc' = "home"
          /\ UNCHANGED << failures, causes >>
  /\ nextId' = IF handles = <<>> THEN nextId ELSE handles[1] + 1
  /\ UNCHANGED << max_retries, attempt, new_handles, popup_handles,
                  nav_result, opened >>

\* Lines 170-173: load the home page unless the URL is already the home URL.
NavHome ==
  /\ NavStep
  /\ navpc = "home"
  /\ IF ~accueil(page[focus])
     THEN \E k \in Landings : page' = [page EXCEPT ![focus] = k]
     ELSE UNCHANGED page
  /\ navpc' = "services"
  /\ UNCHANGED << max_retries, attempt, handles, focus, nextId, new_handles,
                  popup_handles, nav_result, opened, failures, causes >>

\* Lines 175-187: click 'Gerer les services', wait for more contexts than
\* before, switch to one of the new ones (set.pop: whichever).
NavOpenServices ==
  /\ NavStep
  /\ navpc = "services"
  /\ IF ~gerer(page[focus])
     THEN /\ Fail("timeout")
          /\ UNCHANGED << handles, page, focus, nextId, new_handles, opened >>
     ELSE \E tab \in TabKinds \cup {"none"}, rogue \in Rogues :
            LET kinds == Expected(tab) \o rogue
                handles_before == Open
            IN IF kinds = <<>>
               THEN /\ Fail("timeout")
                    /\ UNCHANGED << handles, page, focus, nextId, new_handles,
                                    opened >>
               ELSE /\ OpenContexts(kinds)
                    /\ new_handles' = Range(handles') \ handles_before
                    /\ focus' \in new_handles'
                    /\ navpc' = "popup"
                    /\ UNCHANGED << failures, causes >>
  /\ UNCHANGED << max_retries, attempt, popup_handles, nav_result >>

\* Lines 189-205: window.open of the delegation popup, wait for more contexts
\* than before, switch to one of the new ones (set.pop: whichever).
NavOpenPopup ==
  /\ NavStep
  /\ navpc = "popup"
  /\ \E popup \in PopupKinds \cup {"none"}, rogue \in Rogues :
       LET kinds == Expected(popup) \o rogue
           handles_before_popup == Open
       IN IF kinds = <<>>
          THEN /\ Fail("timeout")
               /\ UNCHANGED << handles, page, focus, nextId, popup_handles,
                               opened >>
          ELSE /\ OpenContexts(kinds)
               /\ popup_handles' = Range(handles') \ handles_before_popup
               /\ focus' \in popup_handles'
               /\ navpc' = "check"
               /\ UNCHANGED << failures, causes >>
  /\ UNCHANGED << max_retries, attempt, new_handles, nav_result >>

\* The final check without the test for 'Fermer' in the popup.
NavCheck_no_error_test ==
  /\ NavStep
  /\ navpc = "check"
  /\ IF saisieSiren(page[focus])
     THEN /\ nav_result' = "success"
          /\ navpc' = "done"
          /\ UNCHANGED << failures, causes >>
     ELSE Fail("timeout") /\ UNCHANGED nav_result
  /\ UNCHANGED << max_retries, attempt, handles, page, focus, nextId,
                  new_handles, popup_handles, opened >>

\* Lines 207-218: 'Fermer' in the popup: next attempt; else wait for
\* #saisieSiren: return True, or TimeoutException.
NavCheck ==
  /\ NavStep
  /\ navpc = "check"
  /\ IF fermer(page[focus])
     THEN Fail("error_page") /\ UNCHANGED nav_result
     ELSE IF saisieSiren(page[focus])
          THEN /\ nav_result' = "success"
               /\ navpc' = "done"
               /\ UNCHANGED << failures, causes >>
          ELSE Fail("timeout") /\ UNCHANGED nav_result
  /\ UNCHANGED << max_retries, attempt, handles, page, focus, nextId,
                  new_handles, popup_handles, opened >>

NextNav ==
  \/ NavLoop
  \/ NavDismissError
  \/ NavCollapse
  \/ NavHome
  \/ NavOpenServices
  \/ NavOpenPopup
  \/ NavCheck

InitNav ==
  BatchInit({[s \in Sheets |-> 0]}) /\ NavInit /\ PipeIdle /\ ExcelIdle

SpecNav == InitNav /\ [][NextNav]_vars

\* ------------------------------------------ process_siren, process_delegation
\* Links that may disappear from the services page between the detection and
\* the end of the entity.
MaxVanish == 1
\* Largest number of checkboxes on a delegation form.
MaxBoxes == 2

SERVICES ==
  << [label |-> "Messagerie", check_all |-> FALSE],
     [label |-> "Declarer TVA", check_all |-> FALSE],
     [label |-> "Payer TVA", check_all |-> FALSE],
     [label |-> "Consulter le Compte fiscal", check_all |-> TRUE],
     [label |-> "Declarer le Resultat", check_all |-> FALSE] >>

Catalog == 1..Len(SERVICES)

Screens == {"siren_entry", "abonne_entry", "services", "form", "recap", "other"}

Did(act, svc) == [act |-> act, svc |-> svc]

\* find_service_link: the link of a service, if the page shown lists it.
find_service_link(scr, off, svc) == scr = "services" /\ svc \in off

\* The catalog filtered by find_service_link, in catalog order (lines 396-400).
RECURSIVE Detect(_, _, _)
Detect(scr, off, from) ==
  IF from > Len(SERVICES) THEN <<>>
  ELSE (IF find_service_link(scr, off, from) THEN <<from>> ELSE <<>>)
         \o Detect(scr, off, from + 1)

\* check_all_checkboxes clicking every checkbox, selected or not.
RECURSIVE check_all_clicks_every(_, _)
check_all_clicks_every(bx, from) ==
  IF from > Len(bx) THEN <<>>
  ELSE <<Did("toggle", from)>> \o check_all_clicks_every(bx, from + 1)

\* check_all_checkboxes: one click on every checkbox that is not selected.
RECURSIVE check_all_clicks(_, _)
check_all_clicks(bx, from) ==
  IF from > Len(bx) THEN <<>>
  ELSE (IF ~bx[from] THEN <<Did("toggle", from)>> ELSE <<>>)
         \o check_all_clicks(bx, from + 1)

\* cb.click(): the checkbox changes its state.
click(bx, n) == [bx EXCEPT ![n] = ~bx[n]]

\* The checkboxes after a sequence of clicks.
RECURSIVE after_clicks(_, _)
after_clicks(bx, clicks) ==
  IF clicks = <<>> THEN bx
  ELSE after_clicks(click(bx, Head(clicks).svc), Tail(clicks))

PipeInit ==
  /\ ppc = "nav"
  /\ screen \in Screens
  /\ offered = {}
  /\ available = <<>>
  /\ svc_i = 0
  /\ boxes = <<>>
  /\ vanished = 0
  /\ result = "none"
  /\ log = <<>>

\* An exception leaves process_siren.
Raise ==
  /\ result' = "raised"
  /\ ppc' = "done"

Return ==
  /\ result' = "returned"
  /\ ppc' = "done"

\* navigate_to_siren_page (lines 240-248): nothing if #saisieSiren is there,
\* else load the delegation URL and wait for #saisieSiren.
NavigateToSirenPage ==
  /\ PipeStep
  /\ ppc = "nav"
  /\ IF screen = "siren_entry"
     THEN /\ ppc' = "siren"
          /\ UNCHANGED << screen, result, log >>
     ELSE /\ log' = Append(log, Did("get_delegation_url", 0))
          /\ \E lands \in {"siren_entry", "other"} :
               /\ screen' = lands
               /\ IF lands = "siren_entry"
                  THEN ppc' = "siren" /\ UNCHANGED result
                  ELSE Raise
  /\ UNCHANGED << offered, available, svc_i, boxes, vanished >>

\* enter_siren (lines 251-256).
EnterSiren ==
  /\ PipeStep
  /\ ppc = "siren"
  /\ \E ok \in BOOLEAN :
       IF ok
       THEN /\ log' = Append(log, Did("enter_siren", 0))
            /\ screen' = "abonne_entry"
            /\ ppc' = "abonne"
            /\ UNCHANGED result
       ELSE Raise /\ UNCHANGED << screen, log >>
  /\ UNCHANGED << offered, available, svc_i, boxes, vanished >>

\* enter_abonne_and_validate at line 393: the services page of the entity.
EnterAbonne ==
  /\ PipeStep
  /\ ppc = "abonne"
  /\ \E ok \in BOOLEAN :
       IF ok
       THEN /\ log' = Append(log, Did("enter_abonne", 0))
            /\ screen' = "services"
            /\ offered' \in SUBSET Catalog
            /\ ppc' = "detect"
            /\ UNCHANGED result
       ELSE Raise /\ UNCHANGED << screen, offered, log >>
  /\ UNCHANGED << available, svc_i, boxes, vanished >>

\* DetectServices leaving without the click on 'Nouveau SIREN'.
DetectServices_no_click ==
  /\ PipeStep
  /\ ppc = "detect"
  /\ available' = Detect(screen, offered, 1)
  /\ IF available' = <<>>
     THEN Return /\ UNCHANGED << screen, log, svc_i >>
     ELSE /\ svc_i' = 1
          /\ ppc' = "find"
          /\ UNCHANGED << screen, result, log >>
  /\ UNCHANGED << offered, boxes, vanished >>

\* Lines 395-407: the available services; none: click_nouveau_siren, return.
DetectServices ==
  /\ PipeStep
  /\ ppc = "detect"
  /\ available' = Detect(screen, offered, 1)
  /\ IF available' = <<>>
     THEN \E ok \in BOOLEAN :
            IF ok
            THEN /\ log' = Append(log, Did("nouveau_siren", 0))
                 /\ screen' = "siren_entry"
                 /\ Return
                 /\ UNCHANGED svc_i
            ELSE Raise /\ UNCHANGED << screen, log, svc_i >>
     ELSE /\ svc_i' = 1
          /\ ppc' = "find"
          /\ UNCHANGED << screen, result, log >>
  /\ UNCHANGED << offered, boxes, vanished >>

service == available[svc_i]
\* is_last true for the first service instead of the last.
is_last_first == svc_i = 1

\* process_siren line 411: is_last = (i == len(available) - 1).
is_last == svc_i = Len(available)

\* Lines 410-414: the next service of available, or the end of process_siren.
NextService ==
  IF is_last THEN Return /\ UNCHANGED svc_i
  ELSE /\ svc_i' = svc_i + 1
       /\ ppc' = "find"
       /\ UNCHANGED result

\* process_delegation, lines 355-362: no link: return False; else click it.
FindAndActivate ==
  /\ PipeStep
  /\ ppc = "find"
  /\ IF ~find_service_link(screen, offered, service)
     THEN /\ log' = Append(log, Did("unavailable", service))
          /\ NextService
          /\ UNCHANGED << screen, boxes >>
     ELSE /\ log' = Append(log, Did("activate", service))
          /\ screen' = "form"
          /\ boxes' \in UNION {[1..n -> BOOLEAN] : n \in 0..MaxBoxes}
          /\ ppc' = "fill"
          /\ UNCHANGED << svc_i, result >>
  /\ UNCHANGED << offered, available, vanished >>

\* process_delegation, lines 364-372: select_acteur, check_all_checkboxes for
\* a check_all service, click_valider.
FillAndValidate ==
  /\ PipeStep
  /\ ppc = "fill"
  /\ LET clicks == IF SERVICES[service].check_all
                   THEN check_all_clicks(boxes, 1) ELSE <<>>
     IN /\ boxes' = after_clicks(boxes, clicks)
        /\ \E ok \in BOOLEAN :
             IF ok
             THEN /\ log' = (Append(log, Did("select_acteur", service))
                               \o clicks) \o <<Did("valider", service)>>
                  /\ screen' = "recap"
                  /\ ppc' = "recap"
                  /\ UNCHANGED result
             ELSE /\ log' = Append(log, Did("select_acteur", service)) \o clicks
                  /\ Raise
                  /\ UNCHANGED screen
  /\ UNCHANGED << offered, available, svc_i, vanished >>

\* process_delegation, lines 374-381: click_nouveau_siren after the last
\* service; else click_nouvelle_delegation and enter_abonne_and_validate,
\* which shows the services page again (links may have gone meanwhile).
AfterValidation ==
  /\ PipeStep
  /\ ppc = "recap"
  /\ \E ok \in BOOLEAN :
       IF ~ok
       THEN Raise /\ UNCHANGED << screen, offered, svc_i, vanished, log >>
       ELSE IF is_last
            THEN /\ log' = Append(log, Did("nouveau_siren", 0))
                 /\ screen' = "siren_entry"
                 /\ NextService
                 /\ UNCHANGED << offered, vanished >>
            ELSE /\ log' = log \o << Did("nouvelle_delegation", 0),
                                     Did("enter_abonne", 0) >>
                 /\ screen' = "services"
                 /\ \E gone \in SUBSET offered :
                      /\ vanished + Cardinality(gone) <= MaxVanish
                      /\ offered' = offered \ gone
                      /\ vanished' = vanished + Cardinality(gone)
                 /\ NextService
  /\ boxes' = <<>>
  /\ UNCHANGED available

NextPipe ==
  \/ NavigateToSirenPage
  \/ EnterSiren
  \/ EnterAbonne
  \/ DetectServices
  \/ FindAndActivate
  \/ FillAndValidate
  \/ AfterValidation

InitPipe ==
  BatchInit({[s \in Sheets |-> 0]}) /\ NavIdle /\ PipeInit /\ ExcelIdle

SpecPipe == InitPipe /\ [][NextPipe]_vars

\* ------------------------------------------------------------- read_excel

\* Largest number of rows of the SIREN column.
MaxRows == 2

\* The width that zfill pads to (line 92).
SirenWidth == 9

RECURSIVE Pow10(_)
Pow10(n) == IF n = 0 THEN 1 ELSE 10 * Pow10(n - 1)

\* cell.value as openpyxl gives it: None, an int, a float (val with the
\* fraction frac/10 beyond it, away from zero), or a string: the text of a
\* number ("str"), "inf", "nan", or anything else ("text").
Cell(kind, val, frac) == [kind |-> kind, val |-> val, frac |-> frac]

IntSamples == {0 - 5, 0, 123, Pow10(SirenWidth) - 1, Pow10(SirenWidth)}

CellValues ==
  {Cell(kind, 0, 0) : kind \in {"none", "text", "inf", "nan"}}
    \cup {Cell("int", v, 0) : v \in IntSamples}
    \cup {Cell(kind, v, f) : kind \in {"float", "str"}, v \in IntSamples,
                             f \in {0, 5}}

Columns == UNION {[1..n -> CellValues] : n \in 0..MaxRows}

DigitChars == << "0", "1", "2", "3", "4", "5", "6", "7", "8", "9" >>

\* float(str(cell.value)): the number, an infinity, a nan, or ValueError.
float(cell) ==
  CASE cell.kind \in {"int", "float", "str"} ->
         [exc |-> "none", is |-> "finite", val |-> cell.val, frac |-> cell.frac]
    [] cell.kind \in {"inf", "nan"} ->
         [exc |-> "none", is |-> cell.kind, val |-> 0, frac |-> 0]
    [] OTHER ->
         [exc |-> "ValueError", is |-> "none", val |-> 0, frac |-> 0]

\* int(x) of a float: truncation towards zero; OverflowError for an
\* infinity, ValueError for a nan.
int(x) ==
  CASE x.is = "finite" -> [exc |-> "none", val |-> x.val]
    [] x.is = "inf" -> [exc |-> "OverflowError", val |-> 0]
    [] OTHER -> [exc |-> "ValueError", val |-> 0]

\* The decimal digits of n >= 0.
RECURSIVE digits(_)
digits(n) ==
  IF n < 10 THEN << DigitChars[n + 1] >>
  ELSE Append(digits(n \div 10), DigitChars[(n % 10) + 1])

\* str(n) of an int.
str(n) == IF n < 0 THEN << "-" >> \o digits(0 - n) ELSE digits(n)

zeros(n) == [m \in 1..n |-> "0"]

\* str.zfill: zeros on the left up to width, after a leading sign; a string
\* of width characters or more is returned as it is.
zfill(s, width) ==
  IF Len(s) >= width THEN s
  ELSE IF s # <<>> /\ Head(s) \in {"+", "-"}
       THEN (<< Head(s) >> \o zeros(width - Len(s))) \o Tail(s)
       ELSE zeros(width - Len(s)) \o s

\* Line 92: str(int(float(str(cell.value)))).zfill(9), or the exception.
siren_of(cell) ==
  LET x == float(cell)
      n == int(x)
  IN IF x.exc # "none" THEN [exc |-> x.exc, siren |-> <<>>]
     ELSE IF n.exc # "none" THEN [exc |-> n.exc, siren |-> <<>>]
     ELSE [exc |-> "none", siren |-> zfill(str(n.val), SirenWidth)]

ExcelInit ==
  /\ rows \in Columns
  /\ row = 1
  /\ sirens = <<>>
  /\ xpc = "rows"
  /\ ignored = {}

\* Lines 88-97: one row of the column.
ReadRow ==
  /\ ExcelStep
  /\ xpc = "rows"
  /\ row <= Len(rows)
  /\ LET cell == rows[row]
         r == siren_of(cell)
     IN IF cell.kind = "none"
        THEN /\ row' = row + 1
             /\ UNCHANGED << sirens, xpc, ignored >>
        ELSE IF r.exc = "none"
        THEN /\ sirens' = Append(sirens, r.siren)
             /\ row' = row + 1
             /\ UNCHANGED << xpc, ignored >>
        ELSE IF r.exc \in {"ValueError", "TypeError"}
        THEN /\ ignored' = ignored \cup {row}
             /\ row' = row + 1
             /\ UNCHANGED << sirens, xpc >>
        ELSE /\ xpc' = "raised"
             /\ UNCHANGED << row, sirens, ignored >>
  /\ UNCHANGED rows

\* Line 98: the end of the column.
ReadEnd ==
  /\ ExcelStep
  /\ xpc = "rows"
  /\ row > Len(rows)
  /\ xpc' = "done"
  /\ UNCHANGED << rows, row, sirens, ignored >>

NextExcel ==
  \/ ReadRow
  \/ ReadEnd

InitExcel ==
  BatchInit({[s \in Sheets |-> 0]}) /\ NavIdle /\ PipeIdle /\ ExcelInit

SpecExcel == InitExcel /\ [][NextExcel]_vars

\* ------------------------------------------------------------------ claims

\* C1: whenever process_siren is about to run or is running for item i (first
\* attempt or retry), the progress file of the sheet holds siren_index = i.
C1_WriteBeforeWork ==
  pc \in {"process", "retry"} => file[pf] = Json(i)

C1_Witness ==
  pc = "retry" /\ i > 0 /\ file[pf] = Json(i)

\* C2 (as claimed): after a crash with the loop at item i of a sheet, the next
\* run, once the operator has accepted the resume of that sheet, makes its
\* first process_siren call of the sheet for item i.
C2_ResumeAtCrashIndex ==
  (pc = "process" /\ ~anyCall /\ resumed /\ crashAt # NoItem
     /\ crashAt.sheet = sheet_name)
    => i = crashAt.idx

FinishedBefore(k) == file[progress_file_for(selected_sheets[k])] = Absent

AllHandled == handled = start_index..(sirens_len - 1)

\* C3: in a run, the progress file of every sheet the loop has finished is
\* absent while the following sheets are processed and at the end, and a
\* progress file is deleted only by a declined resume or, at the end of its
\* sheet, once every item from start_index on has been handled.
C3_ClearedAfterLastItem ==
  /\ [](pc \notin {"start", "login"} =>
          \A k \in 1..(g - 1) : FinishedBefore(k))
  /\ [][\A f \in ProgressFiles :
          (file[f] # Absent /\ file'[f] = Absent) =>
            \/ pc = "resume"
            \/ pc = "clear" /\ f = pf /\ AllHandled]_vars

C3_Witness ==
  /\ pc = "process"
  /\ g = 2
  /\ data[selected_sheets[1]] = MaxItems
  /\ lastSkip = [old |-> FALSE, item |-> Item(selected_sheets[1], MaxItems - 1)]

SkipStep == pc \in {"prompt", "retry"} /\ lastSkip' # lastSkip

C5_SkippedNotReinvoked ==
  (pc \in {"process", "retry"} /\ resumed /\ lastSkip.old)
    => lastSkip.item # Item(sheet_name, i)

\* C6: once the operator has answered q at the retry prompt of item i, the run
\* is over (no further step of main, hence no process_siren call) and the
\* progress file of the sheet holds siren_index = i.
C6_QuitKeepsCheckpoint ==
  quitAt # NoItem =>
    /\ pc = "exited"
    /\ quitAt = Item(sheet_name, i)
    /\ file[progress_file_for(quitAt.sheet)] = Json(quitAt.idx)

C6_Witness ==
  /\ quitAt # NoItem
  /\ quitAt.idx > 0
  /\ g < Len(selected_sheets)

\* C7 (as claimed): once the session has died during an item of a sheet, the
\* progress file of that sheet is not deleted in that run.
C7_DeadSessionKeepsCheckpoint ==
  deadAt # NoItem => file[progress_file_for(deadAt.sheet)] # Absent

\* C8: navigate_to_delegation_page never starts more than max_retries
\* attempts; it returns True at the first attempt that does not fail (every
\* earlier attempt failed) and starts no attempt after that; it raises only
\* after exactly max_retries attempts, all failed.
C8_RetryBudget ==
  /\ [](/\ attempt <= max_retries
        /\ nav_result = "success" => attempt >= 1 /\ failures = attempt - 1
        /\ nav_result = "exhausted" =>
             attempt = max_retries /\ failures = max_retries)
  /\ [][nav_result # "none" =>
          attempt' = attempt /\ nav_result' = nav_result]_vars

\* (error, error, success) with a budget of 3.
C8_Witness ==
  /\ nav_result = "success"
  /\ max_retries = 3
  /\ attempt = 3
  /\ causes = {"error_page"}

\* C9: navigate_to_delegation_page returns True only with the driver switched
\* to an open context that the popup step of the same attempt opened, which
\* shows #saisieSiren and no 'Fermer'; the final check of an attempt whose
\* popup shows 'Fermer' or lacks #saisieSiren does not return True.
C9_SuccessPostcondition ==
  /\ [](nav_result = "success" =>
          /\ focus \in Open
          /\ focus \in opened
          /\ focus \in popup_handles
          /\ ~fermer(page[focus])
          /\ saisieSiren(page[focus]))
  /\ [][(navpc = "check" /\ (fermer(page[focus]) \/ ~saisieSiren(page[focus])))
          => nav_result' # "success"]_vars

C9_Witness ==
  /\ nav_result = "success"
  /\ attempt = 2
  /\ "error_page" \in causes
  /\ page[focus] = "deleg"

Unavailable(n) == log[n].act = "unavailable"

\* C10 (as claimed): when process_siren has returned after a detected service
\* had no link at its activation, no service was activated after that, the
\* last thing done was the click on 'Nouveau SIREN', and the SIREN entry page
\* is shown.
C10_StepUnavailable ==
  (result = "returned" /\ \E n \in 1..Len(log) : Unavailable(n)) =>
    /\ \A n, m \in 1..Len(log) :
         (Unavailable(n) /\ n < m) => log[m].act # "activate"
    /\ log[Len(log)].act = "nouveau_siren"
    /\ screen = "siren_entry"

Acts(q) == {q[n].act : n \in 1..Len(q)}

StepActs ==
  {"activate", "unavailable", "select_acteur", "toggle", "valider",
   "nouvelle_delegation"}

\* C11: with no service detected, process_siren does nothing of a delegation
\* (no activation, role selection, checkbox click, validation or 'Nouvelle
\* delegation'); when it has returned, the click on 'Nouveau SIREN' happened
\* exactly once, as the last thing done, right after the subscriber number
\* was validated.
C11_NoServiceGoesToNewSiren ==
  (ppc \in {"find", "fill", "recap", "done"} /\ available = <<>>) =>
    /\ Acts(log) \cap StepActs = {}
    /\ result = "returned" =>
         /\ Len(log) >= 2
         /\ log[Len(log)].act = "nouveau_siren"
         /\ log[Len(log) - 1].act = "enter_abonne"
         /\ Cardinality({n \in 1..Len(log) : log[n].act = "nouveau_siren"}) = 1
         /\ screen = "siren_entry"

C11_Witness ==
  /\ result = "returned"
  /\ available = <<>>
  /\ offered = {}
  /\ log[Len(log)].act = "nouveau_siren"

\* C12 (as claimed): whenever the process has died, every progress file is
\* either absent or a complete record (the one before the write or the one
\* being written), so that load_progress succeeds in the next run.
C12_AtomicOverwrite ==
  pc = "crashed" => \A s \in Sheets : ~load_fails(file, s)

\* C13: the loop of a sheet starts at 0 when the sheet has no progress file;
\* with a progress file at k # 0 the operator is asked: on acceptance the
\* loop starts at k and the file is kept, on refusal the file is removed and
\* the loop starts at 0; process_siren never runs for an index below the
\* start index, and its first call of the sheet is at the start index.
C13_StartIndex ==
  /\ [][(pc = "load" /\ pc' \in {"for", "resume"}) =>
          /\ file[pf].st = "absent" =>
               pc' = "for" /\ start_index' = 0 /\ i' = 0
          /\ (file[pf].st = "json" /\ file[pf].siren_index # 0) =>
               pc' = "resume" /\ start_index' = file[pf].siren_index]_vars
  /\ [][(pc = "resume" /\ pc' = "for") =>
          /\ resumed' # declined'
          /\ resumed' =>
               /\ start_index' = file[pf].siren_index
               /\ i' = start_index'
               /\ file' = file
          /\ declined' =>
               /\ file'[pf] = Absent
               /\ start_index' = 0
               /\ i' = 0]_vars
  /\ [](InLoopBody =>
          /\ i >= start_index
          /\ \A n \in handled : n >= start_index
          /\ (pc = "process" /\ ~anyCall) => i = start_index)

\* An accepted resume at 2: the first call of process_siren is for item 2.
C13_Witness ==
  /\ pc = "process"
  /\ resumed
  /\ start_index = 2
  /\ i = 2
  /\ ~anyCall

Added == SubSeq(log', Len(log) + 1, Len(log'))

Toggles(q, n) == {m \in 1..Len(q) : q[m] = Did("toggle", n)}

\* C15: the form step of a check_all service clicks every checkbox that is
\* not selected exactly once and no selected one; afterwards every checkbox
\* is selected, so that a form with all checkboxes selected gets no click (as
\* would a second pass); the form step of another service clicks none.
C15_CheckAll ==
  [][(ppc = "fill" /\ ppc' # "fill") =>
       IF SERVICES[service].check_all
       THEN /\ \A n \in 1..Len(boxes) :
                 Cardinality(Toggles(Added, n)) = IF boxes[n] THEN 0 ELSE 1
            /\ \A m \in 1..Len(Added) :
                 Added[m].act = "toggle" => Added[m].svc \in 1..Len(boxes)
            /\ Len(boxes') = Len(boxes)
            /\ \A n \in 1..Len(boxes') : boxes'[n]
            /\ check_all_clicks(boxes', 1) = <<>>
            /\ (\A n \in 1..Len(boxes) : boxes[n]) =>
                 \A m \in 1..Len(Added) : Added[m].act # "toggle"
       ELSE /\ \A m \in 1..Len(Added) : Added[m].act # "toggle"
            /\ boxes' = boxes]_vars

\* A form with checkbox 1 selected and checkbox 2 not: one click, on 2.
C15_Witness ==
  /\ ppc = "recap"
  /\ SERVICES[service].check_all
  /\ boxes = << TRUE, TRUE >>
  /\ Len(log) >= 3
  /\ log[Len(log) - 1] = Did("toggle", 2)
  /\ log[Len(log) - 2].act = "select_acteur"

\* C16 (as claimed): an attempt goes on past an opening action (the click on
\* 'Gerer les services', the window.open of the popup) only when exactly one
\* new context appeared; with several the attempt fails instead of switching
\* into one of them.
C16_AmbiguousContext ==
  /\ navpc = "popup" => Cardinality(new_handles) = 1
  /\ navpc = "check" => Cardinality(popup_handles) = 1

IsSiren(s) == Len(s) = SirenWidth /\ \A n \in 1..Len(s) : s[n] \in Range(DigitChars)

\* C17 (as claimed): read_excel never ends on a cell value, every row it has
\* passed was an empty cell, was skipped as invalid, or gave one entry of
\* sirens, and every entry of sirens is a string of exactly 9 decimal digits.
C17_NineDigits ==
  /\ xpc # "raised"
  /\ xpc \in {"rows", "done"} =>
       Len(sirens) + Cardinality(ignored)
         + Cardinality({n \in 1..(row - 1) : rows[n].kind = "none"}) = row - 1
  /\ \A n \in 1..Len(sirens) : IsSiren(sirens[n])

\* The log without the checkbox clicks and the load of the delegation URL.
Main(q) == SelectSeq(q, LAMBDA e : e.act \notin {"toggle", "get_delegation_url"})

\* What delegating the services av[n], av[n+1], ... one after the other does.
RECURSIVE ExpectedSteps(_, _)
ExpectedSteps(av, n) ==
  IF n > Len(av) THEN <<>>
  ELSE (<< Did("activate", av[n]), Did("select_acteur", av[n]),
           Did("valider", av[n]) >>
        \o (IF n = Len(av) THEN << Did("nouveau_siren", 0) >>
            ELSE << Did("nouvelle_delegation", 0), Did("enter_abonne", 0) >>))
       \o ExpectedSteps(av, n + 1)

\* C18: when process_siren has returned for an entity with k >= 1 detected
\* services whose links were all there at their turn, the services were
\* delegated in the order of SERVICES, each once; each of the first k-1 was
\* followed by 'Nouvelle delegation' and the subscriber number entered again,
\* the last by the click on 'Nouveau SIREN', once, as the last thing done.
C18_StepSequence ==
  (result = "returned" /\ available # <<>> /\ "unavailable" \notin Acts(log)) =>
    /\ \A a, b \in 1..Len(available) : a < b => available[a] < available[b]
    /\ vanished = 0 => Range(available) = offered
    /\ Main(log) = << Did("enter_siren", 0), Did("enter_abonne", 0) >>
                     \o ExpectedSteps(available, 1)
    /\ log[Len(log)].act = "nouveau_siren"
    /\ Cardinality({n \in 1..Len(log) : log[n].act = "nouveau_siren"}) = 1

\* Three services, one of them with checkboxes to click.
C18_Witness ==
  /\ result = "returned"
  /\ Len(available) = 3
  /\ "unavailable" \notin Acts(log)
  /\ "toggle" \in Acts(log)

\* C19 (as claimed): when process_siren has entered the SIREN, either nothing
\* was done before that (#saisieSiren was there) or the page was restored by
\* navigate_to_delegation_page.
C19_EntryPrecondition ==
  "enter_siren" \in Acts(log) =>
    log[1].act \in {"enter_siren", "navigate_to_delegation_page"}

\* C20: in every attempt of navigate_to_delegation_page, when 'Gerer les
\* services' is about to be clicked, exactly one context is open and the
\* driver is switched to it; it is the one that was first among the open
\* contexts when the others were closed, so nothing that an earlier attempt
\* opened beside it is still open.
C20_FramingReset ==
  /\ [](navpc \in {"home", "services"} =>
          /\ Len(handles) = 1
          /\ focus = handles[1]
          /\ DOMAIN page = {focus})
  /\ [][(navpc = "collapse" /\ navpc' = "home") =>
          /\ handles # <<>>
          /\ handles' = << handles[1] >>
          /\ focus' = handles[1]]_vars

\* The second attempt, after a first one that left a tab and a popup with
\* the error page open.
C20_Witness ==
  /\ navpc = "services"
  /\ attempt = 2
  /\ causes = {"error_page"}

\* The progress file names of the configured sheets.
ConfiguredNames ==
  {progress_file_for(SHEETS_TO_PROCESS[n]) : n \in 1..Len(SHEETS_TO_PROCESS)}

\* C21: the sheets of SHEETS_TO_PROCESS have pairwise distinct progress file
\* names, and every step of a run that changes a progress file (save_progress,
\* clear_progress) changes that of the current sheet only: for every other
\* sheet the file is there or not as before, with the same siren_index;
\* load_progress changes no file.
C21_PerSheetProgress ==
  /\ [](Cardinality(ConfiguredNames) = Len(SHEETS_TO_PROCESS))
  /\ [][file' # file =>
          /\ g \in 1..Len(selected_sheets)
          /\ pc \in {"resume", "save", "dump", "save_err", "dump_err", "clear"}
          /\ \A s \in Sheets \ {sheet_name} :
               file'[progress_file_for(s)] = file[progress_file_for(s)]]_vars
  /\ [][pc = "load" => file' = file]_vars

\* Two sheets selected; the first is at item 1 while the progress file of
\* the other, left by an earlier run, holds 2.
C21_Witness ==
  /\ Len(selected_sheets) = 2
  /\ g = 1
  /\ pc = "process"
  /\ file[pf] = Json(1)
  /\ file[progress_file_for(selected_sheets[2])] = Json(2)

====
